---- MODULE Spec2Model ----
(***************************************************************************)
(* Model of the computation engine of InvestmentCalculator.tsx:            *)
(*   - calculations        the historical growth series (useMemo)          *)
(*   - calculatePerPeriodInvestment   the closed-form contribution solver  *)
(*   - futureProjections   the strategy-driven forward projector (useMemo) *)
(*                                                                         *)
(* JavaScript numbers are modelled as exact rationals <<n, d>> with d > 0  *)
(* in lowest terms.  Math.round is modelled as it computes: the nearest    *)
(* integer, a half rounding towards +infinity.  The recorded rows hold the *)
(* rounded values, the loop carries the unrounded ones.                    *)
(***************************************************************************)
EXTENDS Integers, Sequences, FiniteSets, TLC

----------------------------------------------------------------------------
(* Bounds of the model *)

MaxPeriods == 3
MaxAmount == 10

MaxMonths == 3

----------------------------------------------------------------------------
(* Numbers: exact rational arithmetic standing for the JavaScript          *)
(* operators + - * / and the Math functions the engine uses.               *)

RECURSIVE GCD(_, _)
GCD(a, b) == IF b = 0 THEN a ELSE GCD(b, a % b)

AbsInt(n) == IF n < 0 THEN -n ELSE n

Sign(n) == IF n < 0 THEN -1 ELSE 1

Reduce(n, d, g) == <<n \div g, d \div g>>

(* the number n / d, d # 0, in lowest terms with a positive denominator *)
Rat(n, d) == Reduce(Sign(d) * n, Sign(d) * d, GCD(AbsInt(n), AbsInt(d)))

Num(n) == <<n, 1>>

Zero == Num(0)
One == Num(1)

AddOver(x, y, g) ==
    Rat(x[1] * (y[2] \div g) + y[1] * (x[2] \div g), (x[2] \div g) * y[2])

Add(x, y) == AddOver(x, y, GCD(x[2], y[2]))

Neg(x) == <<-x[1], x[2]>>

Sub(x, y) == Add(x, Neg(y))

Times(a, b) == <<a[1] * b[1], a[2] * b[2]>>

Mul(x, y) == Times(Rat(x[1], y[2]), Rat(y[1], x[2]))

Inverse(y) == IF y[1] < 0 THEN <<-y[2], -y[1]>> ELSE <<y[2], y[1]>>

Div(x, y) == Mul(x, Inverse(y))

Lt(x, y) == x[1] * y[2] < y[1] * x[2]

Le(x, y) == x[1] * y[2] <= y[1] * x[2]

Max(x, y) == IF Lt(x, y) THEN y ELSE x

Min(x, y) == IF Lt(y, x) THEN y ELSE x

Abs(x) == <<AbsInt(x[1]), x[2]>>

Floor(x) == x[1] \div x[2]

(* Math.round: floor(x + 1/2), returned as a number *)
Round(x) == Num((2 * x[1] + x[2]) \div (2 * x[2]))

RECURSIVE Pow(_, _)
Pow(x, n) == IF n = 0 THEN One ELSE Mul(x, Pow(x, n - 1))

----------------------------------------------------------------------------
(* Types *)

Frequency == {"once", "daily", "weekly", "monthly"}

ProjectionFrequency == {"yearly", "monthly", "weekly", "daily"}

ReinvestmentStrategy ==
    {"2x", "repeat", "all-in", "double-down", "shield-value", "level-up",
     "pay-yourself", "capital-protect", "take-salary", "custom"}

----------------------------------------------------------------------------
(* The state of the component (useState) and of the projector's loop *)

VARIABLES
    investmentAmount,       \* number
    roiPercentage,          \* number, percent per year
    duration,               \* number, months
    frequency,              \* Frequency
    showTotal,              \* boolean
    enableInflation,        \* boolean
    inflationRate,          \* number, percent per year
    projectionFrequency,    \* ProjectionFrequency
    projectionDuration,     \* number of projection periods
    reinvestmentStrategy,   \* ReinvestmentStrategy
    levelUpAmount,          \* number
    customTargetAmount,     \* number
    salaryAmount,           \* number
    customGainPercent,      \* number, percent
    i,                      \* the next period the projector's loop computes
    balance,                \* the carried, unrounded balance
    previousProfit,         \* the carried, unrounded profit of the last period
    projections,            \* the rows pushed so far (rounded fields)
    locals,                 \* the unrounded locals each row was pushed from
    rt,                     \* the forward compounding loop of the round trip
    startDate,              \* the date string of the form, as year, month, day
    start,                  \* new Date(startDate), in local time
    calc,                   \* the locals of the loop of calculations
    data                    \* the GrowthPoints pushed so far

inputs == <<investmentAmount, roiPercentage, duration, frequency, startDate, showTotal,
            enableInflation, inflationRate, projectionFrequency,
            projectionDuration, reinvestmentStrategy, levelUpAmount,
            customTargetAmount, salaryAmount, customGainPercent>>

loop == <<i, balance, previousProfit, projections, locals>>

history == <<start, calc, data>>

vars == <<inputs, loop, rt, history>>

----------------------------------------------------------------------------
(* calculatePerPeriodInvestment: the fixed per-period investment (or, when *)
(* negative, withdrawal) that reaches targetAmount                        *)

SolverRate(annualRate, freq) ==
    CASE freq = "monthly" -> Div(annualRate, Num(12))
      [] freq = "weekly"  -> Div(annualRate, Num(52))
      [] freq = "daily"   -> Div(annualRate, Num(365))
      [] OTHER            -> annualRate

(* the annuity-due payment: contributions made at the start of a period *)
SolveAnnuityDue(startBalance, targetAmount, rate, growthFactor) ==
    Div(Sub(targetAmount, Mul(startBalance, growthFactor)),
        Mul(Div(Sub(growthFactor, One), rate), Add(One, rate)))

(* C = (FV - P * (1+r)^n) * r / ((1+r)^n - 1) *)
SolveAnnuity(startBalance, targetAmount, rate, growthFactor) ==
    Div(Sub(targetAmount, Mul(startBalance, growthFactor)),
        Div(Sub(growthFactor, One), rate))

SolveAtRate(startBalance, targetAmount, periods, rate) ==
    IF rate = Zero
    THEN Div(Sub(targetAmount, startBalance), Num(periods))
    ELSE SolveAnnuity(startBalance, targetAmount, rate,
                      Pow(Add(One, rate), periods))

(* a solver that guards the period count only *)
calculatePerPeriodInvestmentUnguarded(startBalance, targetAmount, periods, annualRate, freq) ==
    IF periods <= 0 THEN Zero
    ELSE SolveAtRate(startBalance, targetAmount, periods,
                     SolverRate(annualRate, freq))

calculatePerPeriodInvestment(startBalance, targetAmount, periods, annualRate, freq) ==
    IF periods <= 0 \/ Le(startBalance, Zero) THEN Zero
    ELSE SolveAtRate(startBalance, targetAmount, periods,
                     SolverRate(annualRate, freq))

----------------------------------------------------------------------------
(* calculations: the historical growth series                             *)

periodsPerYear(f) ==
    IF f = "daily" THEN 365 ELSE IF f = "weekly" THEN 52 ELSE 12

totalPeriods ==
    Floor(Mul(Div(duration, Num(12)), Num(periodsPerYear(frequency))))

ratePerPeriod ==
    Div(Div(roiPercentage, Num(100)), Num(periodsPerYear(frequency)))

inflationPerPeriod ==
    IF enableInflation
    THEN Div(Div(inflationRate, Num(100)), Num(periodsPerYear(frequency)))
    ELSE Zero

(* a lump sum that compounds month by month *)
periodValueCompounded(k) ==
    LET monthlyRate == Div(Div(roiPercentage, Num(100)), Num(12))
        periodInflation ==
            IF enableInflation
            THEN Sub(One, Mul(Div(inflationRate, Num(100)), Div(Num(k), Num(12))))
            ELSE One
    IN  IF k = 0 THEN investmentAmount
        ELSE Mul(Mul(investmentAmount, Pow(Add(One, monthlyRate), k)),
                 periodInflation)

(* the unrounded value of the lump sum after k months *)
periodValue(k) ==
    LET annualRate == Div(roiPercentage, Num(100))
        periodRate == Mul(annualRate, Div(Num(k), Num(12)))
        periodInflation ==
            IF enableInflation
            THEN Sub(One, Mul(Div(inflationRate, Num(100)), Div(Num(k), Num(12))))
            ELSE One
    IN  IF k = 0 THEN investmentAmount
        ELSE Mul(Mul(investmentAmount, Add(One, periodRate)), periodInflation)

(* the unrounded value of the recurring contributions after k periods *)
Deflate(value) ==
    IF enableInflation THEN Div(value, Add(One, inflationPerPeriod)) ELSE value

RECURSIVE currentValue(_)
currentValue(k) ==
    IF k = 0 THEN Zero
    ELSE Deflate(Mul(Add(currentValue(k - 1), investmentAmount),
                     Add(One, ratePerPeriod)))

(* the unrounded total of the recurring contributions after k periods *)
RECURSIVE totalInvested(_)
totalInvested(k) ==
    IF k = 0 THEN Zero ELSE Add(totalInvested(k - 1), investmentAmount)

GrowthPoint(k, invested, value) ==
    [period        |-> k,
     totalInvested |-> Round(invested),
     currentValue  |-> Round(value),
     profit        |-> Round(Sub(value, invested)),
     displayValue  |-> IF showTotal THEN Round(value)
                       ELSE Round(Sub(value, invested))]

calculations ==
    IF frequency = "once"
    THEN [n \in 1..(Floor(duration) + 1) |->
            GrowthPoint(n - 1, investmentAmount, periodValue(n - 1))]
    ELSE [n \in 1..(totalPeriods + 1) |->
            GrowthPoint(n - 1, totalInvested(n - 1), currentValue(n - 1))]

Last(seq) == seq[Len(seq)]

finalData == Last(calculations)

----------------------------------------------------------------------------
(* Date: the calendar of the JavaScript Date, in local time. A date is a   *)
(* record of year, month (0..11) and day of the month.                     *)

IsLeapYear(y) == (y % 4 = 0 /\ y % 100 # 0) \/ y % 400 = 0

DaysInMonth(y, m) ==
    CASE m = 1 -> IF IsLeapYear(y) THEN 29 ELSE 28
      [] m \in {3, 5, 8, 10} -> 30
      [] OTHER -> 31

(* a day beyond the end of its month rolls over into the months after it, *)
(* a day before the first into the months before it                       *)
RECURSIVE RollDay(_, _, _)
RollDay(y, m, d) ==
    IF d > DaysInMonth(y, m)
    THEN IF m = 11 THEN RollDay(y + 1, 0, d - DaysInMonth(y, m))
         ELSE RollDay(y, m + 1, d - DaysInMonth(y, m))
    ELSE IF d < 1
    THEN IF m = 0 THEN RollDay(y - 1, 11, d + DaysInMonth(y - 1, 11))
         ELSE RollDay(y, m - 1, d + DaysInMonth(y, m - 1))
    ELSE [year |-> y, month |-> m, day |-> d]

(* Date.prototype.setMonth: the month is set, the day of the month kept *)
setMonth(date, m) == RollDay(date.year + (m \div 12), m % 12, date.day)

(* Date.prototype.setDate: the day of the month is set *)
setDate(date, d) == RollDay(date.year, date.month, d)

MonthShort ==
    <<"Jan", "Feb", "Mar", "Apr", "May", "Jun",
      "Jul", "Aug", "Sep", "Oct", "Nov", "Dec">>

(* toLocaleDateString('en-US', { month: 'short', year: 'numeric' }) *)
toLocaleDateString(date) == <<MonthShort[date.month + 1], date.year>>

(* new Date('YYYY-MM-DD') is midnight UTC: in local time the same day east *)
(* of Greenwich, the day before west of it                                 *)
LocalDates(dateString) ==
    {RollDay(dateString.year, dateString.month, dateString.day),
     RollDay(dateString.year, dateString.month, dateString.day - 1)}

----------------------------------------------------------------------------
(* calculations, step by step: one action per iteration of its for loop   *)

(* the value of the lump sum at the end of the duration *)
lumpSumValue(months) ==
    LET rate == Mul(Div(roiPercentage, Num(100)), Div(months, Num(12)))
        inflationAdjustment ==
            IF enableInflation
            THEN Sub(One, Mul(Div(inflationRate, Num(100)), Div(months, Num(12))))
            ELSE One
    IN  Mul(Mul(investmentAmount, Add(One, rate)), inflationAdjustment)

(* let totalInvested, currentValue and the assignments of the once branch *)
CalcInit ==
    [i             |-> 0,
     totalInvested |-> IF frequency = "once" THEN investmentAmount ELSE Zero,
     currentValue  |-> IF frequency = "once" THEN lumpSumValue(duration)
                       ELSE Zero]

(* the loops stop after the period `months`, or totalPeriods *)
LastPeriod == IF frequency = "once" THEN duration ELSE Num(totalPeriods)

(* a loop that stops one period early *)
InLoopExclusive(k, last) == Lt(Num(k), last)

(* i <= months, i <= totalPeriods *)
InLoop(k, last) == Le(Num(k), last)

(* an accumulation that also counts a contribution in period 0 *)
AccumulateFromZero(k, total) == Add(total, investmentAmount)

(* if (i > 0) totalInvested += investmentAmount *)
Accumulate(k, total) == IF k > 0 THEN Add(total, investmentAmount) ELSE total

(* if (i > 0) currentValue = (currentValue + investmentAmount) * ... *)
Grow(k, value) ==
    IF k > 0
    THEN Deflate(Mul(Add(value, investmentAmount), Add(One, ratePerPeriod)))
    ELSE value

(* periodDate: i days, weeks or months after start *)
periodDate(k) ==
    CASE frequency = "daily"  -> setDate(start, start.day + k)
      [] frequency = "weekly" -> setDate(start, start.day + k * 7)
      [] OTHER                -> setMonth(start, start.month + k)

(* the pushed point: the GrowthPoint and its date label *)
CalculationData(point, date) ==
    [period        |-> point.period,
     date          |-> toLocaleDateString(date),
     totalInvested |-> point.totalInvested,
     currentValue  |-> point.currentValue,
     profit        |-> point.profit,
     displayValue  |-> point.displayValue]

PushPoint(invested, value) ==
    data' = Append(data, CalculationData(GrowthPoint(calc.i, invested, value),
                                         periodDate(calc.i)))

(* an iteration of the lump-sum loop *)
CalcOnce ==
    /\ frequency = "once"
    /\ InLoop(calc.i, LastPeriod)
    /\ PushPoint(calc.totalInvested, periodValue(calc.i))
    /\ calc' = [calc EXCEPT !.i = @ + 1]
    /\ UNCHANGED <<inputs, loop, rt, start>>

(* an iteration of the recurring loop *)
CalcRecurring ==
    /\ frequency # "once"
    /\ InLoop(calc.i, LastPeriod)
    /\ PushPoint(Accumulate(calc.i, calc.totalInvested),
                 Grow(calc.i, calc.currentValue))
    /\ calc' = [i             |-> calc.i + 1,
                totalInvested |-> Accumulate(calc.i, calc.totalInvested),
                currentValue  |-> Grow(calc.i, calc.currentValue)]
    /\ UNCHANGED <<inputs, loop, rt, start>>

----------------------------------------------------------------------------
(* futureProjections: the forward projector                               *)

(* a configuration whose shield rate follows the inflation toggle *)
getConfigToggled ==
    LET annualRate == Div(roiPercentage, Num(100))
        inflationAnnual ==
            IF enableInflation THEN Div(inflationRate, Num(100)) ELSE Zero
        per == CASE projectionFrequency = "monthly" -> 12
                 [] projectionFrequency = "weekly"  -> 52
                 [] projectionFrequency = "daily"   -> 365
                 [] OTHER                           -> 1
    IN  [rate            |-> Div(annualRate, Num(per)),
         shieldInflation |-> Div(inflationAnnual, Num(per))]

getConfig ==
    LET annualRate == Div(roiPercentage, Num(100))
        shieldInflationAnnual == Div(inflationRate, Num(100))
        per == CASE projectionFrequency = "monthly" -> 12
                 [] projectionFrequency = "weekly"  -> 52
                 [] projectionFrequency = "daily"   -> 365
                 [] OTHER                           -> 1
    IN  [rate            |-> Div(annualRate, Num(per)),
         shieldInflation |-> Div(shieldInflationAnnual, Num(per))]

(* cash-in strategies: the new cash is added, then the whole grows *)
CashIn(startValue, newCash, rate) ==
    [newCash  |-> newCash,
     cashOut  |-> Zero,
     endValue |-> Mul(Add(startValue, newCash), Add(One, rate))]

(* all-in that books the period's growth as new cash *)
AllInBooksGrowth(startValue, rate) ==
    [newCash  |-> Mul(startValue, rate),
     cashOut  |-> Zero,
     endValue |-> Mul(startValue, Add(One, rate))]

(* all-in that forgets to grow the balance *)
AllInNoGrowth(startValue, rate) ==
    [newCash  |-> Zero,
     cashOut  |-> Zero,
     endValue |-> startValue]

AllIn(startValue, rate) ==
    [newCash  |-> Zero,
     cashOut  |-> Zero,
     endValue |-> Mul(startValue, Add(One, rate))]

(* level-up with a smallest top-up of 1 *)
LevelUpAtLeastOne(startValue, amount, rate) ==
    CashIn(startValue, Max(amount, One), rate)

LevelUp(startValue, amount, rate) == CashIn(startValue, amount, rate)

(* pay-yourself that books the reinvested half as new cash *)
PayYourselfBooksReinvest(startValue, rate) ==
    LET payYourselfGrowth == Mul(startValue, rate)
    IN  [newCash  |-> Div(payYourselfGrowth, Num(2)),
         cashOut  |-> Div(payYourselfGrowth, Num(2)),
         endValue |-> Add(startValue, Div(payYourselfGrowth, Num(2)))]

PayYourself(startValue, rate) ==
    LET payYourselfGrowth == Mul(startValue, rate)
    IN  [newCash  |-> Zero,
         cashOut  |-> Div(payYourselfGrowth, Num(2)),
         endValue |-> Add(startValue, Div(payYourselfGrowth, Num(2)))]

(* capital-protect that ends on the grown balance minus the cash out *)
CapitalProtectFromGrowth(startValue, originalPrincipal, rate) ==
    LET excessOverPrincipal == Max(Zero, Sub(startValue, originalPrincipal))
        principalProfit == Mul(originalPrincipal, rate)
        cashOut == Add(excessOverPrincipal, principalProfit)
    IN  [newCash  |-> Zero,
         cashOut  |-> cashOut,
         endValue |-> Sub(Mul(startValue, Add(One, rate)), cashOut)]

CapitalProtect(startValue, originalPrincipal, rate) ==
    LET excessOverPrincipal == Max(Zero, Sub(startValue, originalPrincipal))
        principalProfit == Mul(originalPrincipal, rate)
    IN  [newCash  |-> Zero,
         cashOut  |-> Add(excessOverPrincipal, principalProfit),
         endValue |-> originalPrincipal]

(* take-salary that pays the whole salary whatever the balance holds *)
TakeSalaryUnclamped(startValue, salary, rate) ==
    LET afterGrowth == Mul(startValue, Add(One, rate))
    IN  [newCash  |-> Zero,
         cashOut  |-> salary,
         endValue |-> Max(Zero, Sub(afterGrowth, salary))]

TakeSalary(startValue, salary, rate) ==
    LET afterGrowth == Mul(startValue, Add(One, rate))
        cashOut == Min(salary, afterGrowth)
    IN  [newCash  |-> Zero,
         cashOut  |-> cashOut,
         endValue |-> Max(Zero, Sub(afterGrowth, cashOut))]

Custom(startValue, customPerPeriodAmount, rate) ==
    IF Le(Zero, customPerPeriodAmount)
    THEN CashIn(startValue, customPerPeriodAmount, rate)
    ELSE LET grownValue == Mul(startValue, Add(One, rate))
             cashOut == Min(Abs(customPerPeriodAmount), grownValue)
         IN  [newCash  |-> Zero,
              cashOut  |-> cashOut,
              endValue |-> Max(Zero, Sub(grownValue, cashOut))]

(* the custom amount, from the last point `final` of the historical series *)
customPerPeriodAmountFrom(final, targetAmount) ==
    calculatePerPeriodInvestment(final.currentValue, targetAmount,
                                 projectionDuration,
                                 Div(roiPercentage, Num(100)),
                                 projectionFrequency)

customPerPeriodAmountFor(targetAmount) ==
    customPerPeriodAmountFrom(finalData, targetAmount)

customPerPeriodAmount == customPerPeriodAmountFor(customTargetAmount)

originalPrincipal == investmentAmount

(* the parameters of the strategy variants, as the component holds them *)
StrategyParams ==
    [levelUpAmount      |-> levelUpAmount,
     salaryAmount       |-> salaryAmount,
     customTargetAmount |-> customTargetAmount,
     customGainPercent  |-> customGainPercent]

(* a switch whose take-salary reads the level-up amount as well *)
ApplyStrategyLeaking(startValue, rate, shieldInflation, prevProfit, p) ==
    CASE reinvestmentStrategy = "2x" ->
           CashIn(startValue, startValue, rate)
      [] reinvestmentStrategy = "repeat" ->
           CashIn(startValue, originalPrincipal, rate)
      [] reinvestmentStrategy = "all-in" ->
           AllIn(startValue, rate)
      [] reinvestmentStrategy = "double-down" ->
           CashIn(startValue, prevProfit, rate)
      [] reinvestmentStrategy = "shield-value" ->
           CashIn(startValue, Mul(startValue, shieldInflation), rate)
      [] reinvestmentStrategy = "level-up" ->
           LevelUp(startValue, p.levelUpAmount, rate)
      [] reinvestmentStrategy = "pay-yourself" ->
           PayYourself(startValue, rate)
      [] reinvestmentStrategy = "capital-protect" ->
           CapitalProtect(startValue, originalPrincipal, rate)
      [] reinvestmentStrategy = "take-salary" ->
           TakeSalary(startValue, Add(p.salaryAmount, p.levelUpAmount), rate)
      [] reinvestmentStrategy = "custom" ->
           Custom(startValue, customPerPeriodAmountFor(p.customTargetAmount),
                  rate)

(* a switch whose repeat injects the final value of the historical series *)
ApplyStrategyOnFinalValue(final, startValue, rate, shieldInflation, prevProfit, p) ==
    CASE reinvestmentStrategy = "2x" ->
           CashIn(startValue, startValue, rate)
      [] reinvestmentStrategy = "repeat" ->
           CashIn(startValue, final.currentValue, rate)
      [] reinvestmentStrategy = "all-in" ->
           AllIn(startValue, rate)
      [] reinvestmentStrategy = "double-down" ->
           CashIn(startValue, prevProfit, rate)
      [] reinvestmentStrategy = "shield-value" ->
           CashIn(startValue, Mul(startValue, shieldInflation), rate)
      [] reinvestmentStrategy = "level-up" ->
           LevelUp(startValue, p.levelUpAmount, rate)
      [] reinvestmentStrategy = "pay-yourself" ->
           PayYourself(startValue, rate)
      [] reinvestmentStrategy = "capital-protect" ->
           CapitalProtect(startValue, originalPrincipal, rate)
      [] reinvestmentStrategy = "take-salary" ->
           TakeSalary(startValue, p.salaryAmount, rate)
      [] reinvestmentStrategy = "custom" ->
           Custom(startValue,
                  customPerPeriodAmountFrom(final, p.customTargetAmount), rate)

(* the switch on reinvestmentStrategy, from the last point `final` of the *)
(* historical series, the carried profit and the parameters p of the      *)
(* variants                                                               *)
ApplyStrategyOn(final, startValue, rate, shieldInflation, prevProfit, p) ==
    CASE reinvestmentStrategy = "2x" ->
           CashIn(startValue, startValue, rate)
      [] reinvestmentStrategy = "repeat" ->
           CashIn(startValue, originalPrincipal, rate)
      [] reinvestmentStrategy = "all-in" ->
           AllIn(startValue, rate)
      [] reinvestmentStrategy = "double-down" ->
           CashIn(startValue, prevProfit, rate)
      [] reinvestmentStrategy = "shield-value" ->
           CashIn(startValue, Mul(startValue, shieldInflation), rate)
      [] reinvestmentStrategy = "level-up" ->
           LevelUp(startValue, p.levelUpAmount, rate)
      [] reinvestmentStrategy = "pay-yourself" ->
           PayYourself(startValue, rate)
      [] reinvestmentStrategy = "capital-protect" ->
           CapitalProtect(startValue, originalPrincipal, rate)
      [] reinvestmentStrategy = "take-salary" ->
           TakeSalary(startValue, p.salaryAmount, rate)
      [] reinvestmentStrategy = "custom" ->
           Custom(startValue,
                  customPerPeriodAmountFrom(final, p.customTargetAmount), rate)

ApplyStrategyWith(startValue, rate, shieldInflation, prevProfit, p) ==
    ApplyStrategyOn(finalData, startValue, rate, shieldInflation, prevProfit, p)

ApplyStrategy(startValue, rate, shieldInflation) ==
    ApplyStrategyWith(startValue, rate, shieldInflation, previousProfit,
                      StrategyParams)

(* the unrounded quantities of a period, and the row pushed from them *)
Quantities(period, startValue, newCash, invested, profit, afterGrowth, cashOut, endValue) ==
    [period        |-> period,
     startValue    |-> startValue,
     newCash       |-> newCash,
     totalInvested |-> invested,
     profit        |-> profit,
     afterGrowth   |-> afterGrowth,
     cashOut       |-> cashOut,
     endValue      |-> endValue]

ProjectionData(q) ==
    [period        |-> q.period,
     startValue    |-> Round(q.startValue),
     newCash       |-> Round(q.newCash),
     totalInvested |-> Round(q.totalInvested),
     profit        |-> Round(q.profit),
     afterGrowth   |-> Round(q.afterGrowth),
     cashOut       |-> Round(q.cashOut),
     endValue      |-> Round(q.endValue)]

(* a carry that lets the display rounding leak into the balance *)
CarryRounded(endValue) == Round(endValue)

(* what the loop carries to the next period *)
Carry(endValue) == endValue

(* a push that lets the display rounding leak into the carried profit *)
PushRoundedProfit(q) ==
    /\ projections' = Append(projections, ProjectionData(q))
    /\ locals' = Append(locals, q)
    /\ previousProfit' = Round(q.profit)
    /\ balance' = Carry(q.endValue)

(* the row is pushed, the profit and the balance are carried *)
Push(q) ==
    /\ projections' = Append(projections, ProjectionData(q))
    /\ locals' = Append(locals, q)
    /\ previousProfit' = q.profit
    /\ balance' = Carry(q.endValue)

Year1(year1Invested, year1Profit) ==
    Quantities(1, Zero, balance, year1Invested, year1Profit,
               Add(year1Invested, year1Profit), Zero,
               Add(year1Invested, year1Profit))

(* a bootstrap that applies the strategy's top-up already in period 1 *)
BootstrapWithStrategy(rate) ==
    Year1(IF reinvestmentStrategy = "2x" THEN Add(balance, balance) ELSE balance,
          Mul(balance, rate))

(* period 1: the bank starts at 0 and the investment is cashed in *)
BootstrapQuantities(rate) == Year1(balance, Mul(balance, rate))

Bootstrap ==
    /\ Len(calculations) > 0
    /\ i = 1
    /\ i <= projectionDuration
    /\ Push(BootstrapQuantities(getConfig.rate))
    /\ i' = i + 1
    /\ UNCHANGED <<inputs, rt, history>>

(* the quantities of a period >= 2, from the outcome s of the strategy *)
PeriodRow(startValue, s, invested, rate) ==
    Quantities(i, startValue, s.newCash, invested,
               IF Lt(Zero, s.newCash)
               THEN Mul(invested, rate)
               ELSE Mul(startValue, rate),
               IF Lt(Zero, s.newCash)
               THEN Mul(invested, Add(One, rate))
               ELSE Mul(startValue, Add(One, rate)),
               s.cashOut, s.endValue)

PeriodOutcome(startValue, s, rate) ==
    PeriodRow(startValue, s, Add(startValue, s.newCash), rate)

PeriodQuantities(startValue, rate, shieldInflation) ==
    PeriodOutcome(startValue, ApplyStrategy(startValue, rate, shieldInflation),
                  rate)

ProjectPeriod ==
    /\ Len(calculations) > 0
    /\ i > 1
    /\ i <= projectionDuration
    /\ Push(PeriodQuantities(balance, getConfig.rate, getConfig.shieldInflation))
    /\ i' = i + 1
    /\ UNCHANGED <<inputs, rt, history>>

----------------------------------------------------------------------------
(* The forward compounding loop of the solver round trip: the solver's     *)
(* output is fed back as the fixed contribution of the level-up rule.      *)

RoundTripStep ==
    /\ rt.k < rt.periods
    /\ rt' = [rt EXCEPT
                !.k = @ + 1,
                !.balance = LevelUp(@, rt.C,
                                SolverRate(rt.annualRate, rt.freq)).endValue]
    /\ UNCHANGED <<inputs, loop, history>>

----------------------------------------------------------------------------
(* Inputs *)

Amounts == {Num(0), Num(1), Rat(5, 2), Num(MaxAmount)}

(* the rate per projection period, in percent *)
RatePercents == {0, 50, 100}

(* projection frequency and the rate per period, in percent *)
RateInputs ==
    {<<"yearly", p>> : p \in RatePercents}
        \cup {<<"monthly", 50>>, <<"weekly", 50>>, <<"daily", 50>>}

InflationPercents == {0, 50}

PerYear(f) ==
    CASE f = "monthly" -> 12 [] f = "weekly" -> 52 [] f = "daily" -> 365
      [] OTHER -> 1

(* the historical schedules: frequency and duration in months *)
Schedules ==
    {<<"once", Num(12)>>, <<"monthly", Num(0)>>, <<"monthly", Num(2)>>,
     <<"weekly", Rat(1, 2)>>, <<"daily", Rat(1, 20)>>}

LevelUpAmounts == {-30, 0, 5}

SalaryAmounts == {-2, 0, 3, 100}

TargetAmounts == {0, 40, 500}

(* the solver's startBalance and periods, the rejected ones included *)
StartBalances == -1..MaxAmount

PeriodCounts == -1..MaxPeriods

NoRoundTrip ==
    [startBalance |-> Zero, targetAmount |-> Zero, periods |-> 0,
     annualRate |-> Zero, freq |-> "yearly", C |-> Zero, balance |-> Zero,
     k |-> 0]

(* useState('2026-01-01') *)
DefaultStartDate == [year |-> 2026, month |-> 0, day |-> 1]

(* the historical series before its loop, at the default start date *)
HistoryIdle ==
    /\ startDate = DefaultStartDate
    /\ start = DefaultStartDate
    /\ calc = CalcInit
    /\ data = <<>>

LoopInit ==
    /\ i = 1
    /\ balance = investmentAmount
    /\ previousProfit = Zero
    /\ projections = <<>>
    /\ locals = <<>>

Init ==
    /\ investmentAmount \in Amounts
    /\ \E r \in RateInputs :
           /\ projectionFrequency = r[1]
           /\ roiPercentage = Num(r[2] * PerYear(r[1]))
    /\ \E p \in InflationPercents :
           inflationRate = Num(p * PerYear(projectionFrequency))
    /\ enableInflation \in BOOLEAN
    /\ showTotal = TRUE
    /\ \E s \in Schedules : frequency = s[1] /\ duration = s[2]
    /\ projectionDuration \in 2..MaxPeriods
    /\ reinvestmentStrategy \in ReinvestmentStrategy
    /\ levelUpAmount \in
           IF reinvestmentStrategy = "level-up"
           THEN {Num(l) : l \in LevelUpAmounts} ELSE {Num(50)}
    /\ salaryAmount \in
           IF reinvestmentStrategy = "take-salary"
           THEN {Num(a) : a \in SalaryAmounts} ELSE {Num(100)}
    /\ customTargetAmount \in
           IF reinvestmentStrategy = "custom"
           THEN {Num(t) : t \in TargetAmounts} ELSE {Num(50000)}
    /\ customGainPercent = Num(20)
    /\ LoopInit
    /\ HistoryIdle
    /\ rt = NoRoundTrip

Next == Bootstrap \/ ProjectPeriod

Spec == Init /\ [][Next]_vars

(* the round trip on its own: the solver's inputs are drawn, the component *)
(* keeps its default state                                                 *)
InitRoundTrip ==
    /\ investmentAmount = Num(1000)
    /\ roiPercentage = Num(10)
    /\ duration = Num(12)
    /\ frequency = "monthly"
    /\ showTotal = TRUE
    /\ enableInflation = FALSE
    /\ inflationRate = Num(3)
    /\ projectionFrequency = "yearly"
    /\ projectionDuration = 10
    /\ reinvestmentStrategy = "all-in"
    /\ levelUpAmount = Num(50)
    /\ customTargetAmount = Num(50000)
    /\ salaryAmount = Num(100)
    /\ customGainPercent = Num(20)
    /\ LoopInit
    /\ HistoryIdle
    /\ \E s \in StartBalances, t \in TargetAmounts, n \in PeriodCounts,
          f \in ProjectionFrequency, p \in RatePercents :
           LET annualRate == Div(Num(p * PerYear(f)), Num(100))
           IN  rt = [startBalance |-> Num(s), targetAmount |-> Num(t),
                     periods |-> n, annualRate |-> annualRate, freq |-> f,
                     C |-> calculatePerPeriodInvestment(Num(s), Num(t), n,
                                                        annualRate, f),
                     balance |-> Num(s), k |-> 0]

NextRoundTrip == RoundTripStep

SpecRoundTrip == InitRoundTrip /\ [][NextRoundTrip]_vars

(* the historical series on its own: the inputs of calculations are drawn, *)
(* the projector keeps its default state                                   *)

(* frequency and duration in months, whole and fractional *)
HistorySchedules ==
    {<<"once", Num(m)>> : m \in 0..MaxMonths}
        \cup {<<"once", Rat(1, 2)>>, <<"once", Num(12)>>}
        \cup {<<"monthly", Num(m)>> : m \in 0..MaxMonths}
        \cup {<<"monthly", Rat(1, 2)>>}
        \cup {<<"weekly", Rat(1, 4)>>, <<"weekly", Rat(1, 2)>>}
        \cup {<<"daily", Rat(1, 20)>>, <<"daily", Rat(1, 10)>>}

(* the rate and the inflation per period, in percent *)
HistoryPercents == {0, 50}

StartDates ==
    {DefaultStartDate,
     [year |-> 2026, month |-> 0, day |-> 31],
     [year |-> 2024, month |-> 0, day |-> 30],
     [year |-> 2025, month |-> 10, day |-> 15],
     [year |-> 2026, month |-> 11, day |-> 29]}

InitCalc ==
    /\ investmentAmount \in Amounts
    /\ \E s \in HistorySchedules : frequency = s[1] /\ duration = s[2]
    /\ \E p \in HistoryPercents :
           roiPercentage = Num(p * periodsPerYear(frequency))
    /\ \E p \in HistoryPercents :
           inflationRate = Num(p * periodsPerYear(frequency))
    /\ enableInflation \in BOOLEAN
    /\ showTotal \in BOOLEAN
    /\ startDate \in StartDates
    /\ start \in LocalDates(startDate)
    /\ calc = CalcInit
    /\ data = <<>>
    /\ projectionFrequency = "yearly"
    /\ projectionDuration = 10
    /\ reinvestmentStrategy = "all-in"
    /\ levelUpAmount = Num(50)
    /\ customTargetAmount = Num(50000)
    /\ salaryAmount = Num(100)
    /\ customGainPercent = Num(20)
    /\ LoopInit
    /\ rt = NoRoundTrip

NextCalc == CalcOnce \/ CalcRecurring

SpecCalc == InitCalc /\ [][NextCalc]_vars

----------------------------------------------------------------------------
(* Properties *)

Rows == 1..Len(projections)

LaterRows == 2..Len(projections)

(* two amounts that agree up to the rounding of the display *)
WithinRounding(x, y) == Le(Abs(Sub(x, y)), One)

NonZero(x) == x # Zero

IsFraction(x) == x[2] # 1

(* C1: feeding the solver's output back as the fixed contribution of the *)
(* level-up rule, (balance + C) * (1 + r), for `periods` periods from     *)
(* startBalance > 0 ends on the target, within rounding.                  *)
C1_RoundTripLandsOnTarget ==
    (rt.periods >= 1 /\ rt.k = rt.periods /\ Lt(Zero, rt.startBalance))
        => WithinRounding(rt.balance, rt.targetAmount)

(* C2: under the custom strategy with a non-negative per-period amount,   *)
(* investmentAmount > 0, rate > 0 and at least two periods, the endValue  *)
(* of the last row equals customTargetAmount, within rounding.            *)
C2_CustomReachesTarget ==
    (/\ reinvestmentStrategy = "custom"
     /\ Le(Zero, customPerPeriodAmount)
     /\ Lt(Zero, investmentAmount)
     /\ Lt(Zero, getConfig.rate)
     /\ projectionDuration >= 2
     /\ Len(projections) = projectionDuration)
        => WithinRounding(projections[Len(projections)].endValue,
                          customTargetAmount)

(* C3: the start value a period is computed from is the unrounded end     *)
(* value of the period before it, which is also what the loop carries;    *)
(* so the recorded startValue of a row is the recorded endValue of the    *)
(* row before it.                                                         *)
C3_UnroundedCarry ==
    /\ \A k \in Rows :
           k < Len(projections) =>
               /\ locals[k + 1].startValue = locals[k].endValue
               /\ projections[k + 1].startValue = projections[k].endValue
    /\ Len(locals) > 0 => balance = locals[Len(locals)].endValue

C3_Witness ==
    /\ Len(locals) >= 3
    /\ IsFraction(locals[2].endValue)
    /\ locals[3].startValue = locals[2].endValue

(* C4: in every recorded row, totalInvested = startValue + newCash.       *)
C4_RecordedTotalInvested ==
    \A k \in Rows :
        projections[k].totalInvested =
            Add(projections[k].startValue, projections[k].newCash)

(* C5: with investmentAmount >= 0 and rate >= 0, the endValue of every    *)
(* row is >= 0, whatever the strategy and its parameters.                 *)
C5_EndValueNonNegative ==
    (Le(Zero, investmentAmount) /\ Le(Zero, getConfig.rate))
        => \A k \in Rows : /\ Le(Zero, projections[k].endValue)
                           /\ Le(Zero, locals[k].endValue)

(* C6 as stated: in every period exactly one of newCash and cashOut is    *)
(* non-zero under every strategy but all-in, and both are zero under      *)
(* all-in.                                                                *)
C6_ExactlyOneNonZero ==
    \A k \in Rows :
        IF reinvestmentStrategy = "all-in"
        THEN projections[k].newCash = Zero /\ projections[k].cashOut = Zero
        ELSE NonZero(projections[k].newCash) # NonZero(projections[k].cashOut)

CashInStrategies ==
    {"2x", "repeat", "double-down", "shield-value", "level-up"}

CashOutStrategies == {"pay-yourself", "capital-protect", "take-salary"}

(* C6 as amended: newCash and cashOut are never both non-zero; period 1   *)
(* records the starting balance as newCash and no cashOut; from period 2  *)
(* on cashOut is zero under the cash-in strategies and all-in, newCash is *)
(* zero under the withdrawal strategies and all-in, so both are zero      *)
(* under all-in.  Either may be zero as well when the strategy's amount   *)
(* is zero or rounds to zero.                                             *)
C6_AtMostOneNonZero ==
    \A k \in Rows :
        LET p == projections[k]
        IN  /\ p.newCash = Zero \/ p.cashOut = Zero
            /\ k = 1 => p.newCash = Round(investmentAmount) /\ p.cashOut = Zero
            /\ (k >= 2 /\ reinvestmentStrategy \in CashInStrategies \cup {"all-in"})
                   => p.cashOut = Zero
            /\ (k >= 2 /\ reinvestmentStrategy \in CashOutStrategies \cup {"all-in"})
                   => p.newCash = Zero

C6_Witness ==
    /\ Len(projections) >= 2
    /\ reinvestmentStrategy = "take-salary"
    /\ Lt(Zero, investmentAmount)
    /\ projections[2].newCash = Zero
    /\ projections[2].cashOut = Zero

(* C7: no period has both newCash and cashOut non-zero, in the row as     *)
(* recorded and in the amounts it was rounded from.                       *)
C7_NeverBoth ==
    \A k \in Rows :
        /\ ~(NonZero(projections[k].newCash) /\ NonZero(projections[k].cashOut))
        /\ ~(NonZero(locals[k].newCash) /\ NonZero(locals[k].cashOut))

C7_Witness ==
    /\ Len(projections) >= 2
    /\ reinvestmentStrategy = "custom"
    /\ NonZero(projections[2].cashOut)
    /\ projections[2].newCash = Zero

(* C8: whatever the strategy, period 1 is the bootstrap row: startValue 0,*)
(* newCash the starting balance, totalInvested = newCash, profit =        *)
(* totalInvested * rate, endValue = totalInvested + profit, cashOut 0;    *)
(* the row records these amounts rounded.                                 *)
C8_Bootstrap ==
    Len(projections) >= 1 =>
        LET q == locals[1]
            p == projections[1]
        IN  /\ q.startValue = Zero
            /\ q.newCash = investmentAmount
            /\ q.totalInvested = q.newCash
            /\ q.profit = Mul(q.totalInvested, getConfig.rate)
            /\ q.endValue = Add(q.totalInvested, q.profit)
            /\ q.cashOut = Zero
            /\ p = [period        |-> 1,
                    startValue    |-> Zero,
                    newCash       |-> Round(investmentAmount),
                    totalInvested |-> Round(investmentAmount),
                    profit        |-> Round(Mul(investmentAmount, getConfig.rate)),
                    afterGrowth   |-> Round(Mul(investmentAmount,
                                                Add(One, getConfig.rate))),
                    cashOut       |-> Zero,
                    endValue      |-> Round(Mul(investmentAmount,
                                                Add(One, getConfig.rate)))]

C8_Witness ==
    /\ Len(projections) >= 2
    /\ reinvestmentStrategy = "2x"
    /\ NonZero(locals[1].profit)
    /\ locals[2].newCash # locals[1].newCash

(* C9 as stated: under all-in, endValue = startValue * (1 + r) in every   *)
(* period >= 2 and newCash = cashOut = 0 in every period.                 *)
C9_AllInThroughout ==
    reinvestmentStrategy = "all-in" =>
        /\ \A k \in LaterRows :
               locals[k].endValue =
                   Mul(locals[k].startValue, Add(One, getConfig.rate))
        /\ \A k \in Rows :
               /\ projections[k].newCash = Zero
               /\ projections[k].cashOut = Zero

(* C9 as amended: under all-in, the unrounded endValue of every period    *)
(* >= 2 is startValue * (1 + r), and newCash = cashOut = 0 in every       *)
(* period >= 2; period 1 records the starting balance as newCash.         *)
C9_AllInAfterBootstrap ==
    reinvestmentStrategy = "all-in" =>
        /\ \A k \in LaterRows :
               /\ locals[k].endValue =
                      Mul(locals[k].startValue, Add(One, getConfig.rate))
               /\ locals[k].newCash = Zero /\ locals[k].cashOut = Zero
               /\ projections[k].newCash = Zero
               /\ projections[k].cashOut = Zero
        /\ Len(projections) >= 1 =>
               projections[1].newCash = Round(investmentAmount)

C9_Witness ==
    /\ reinvestmentStrategy = "all-in"
    /\ Len(projections) >= 3
    /\ Lt(Zero, investmentAmount)
    /\ Lt(Zero, getConfig.rate)
    /\ Lt(locals[3].startValue, locals[3].endValue)

(* C10: under capital-protect, the endValue of every period >= 2 is the   *)
(* original principal, investmentAmount (recorded rounded).               *)
C10_CapitalProtect ==
    reinvestmentStrategy = "capital-protect" =>
        \A k \in LaterRows :
            /\ locals[k].endValue = investmentAmount
            /\ projections[k].endValue = Round(investmentAmount)

C10_Witness ==
    /\ reinvestmentStrategy = "capital-protect"
    /\ Len(projections) >= 3
    /\ Lt(Zero, investmentAmount)
    /\ Lt(Zero, getConfig.rate)
    /\ NonZero(locals[3].cashOut)

(* C11: in every period and under every strategy, on the unrounded        *)
(* quantities, endValue = totalInvested + profit - cashOut, which is      *)
(* afterGrowth - cashOut.                                                 *)
C11_AccountingFlow ==
    \A k \in Rows :
        /\ locals[k].endValue =
               Sub(Add(locals[k].totalInvested, locals[k].profit),
                   locals[k].cashOut)
        /\ locals[k].endValue = Sub(locals[k].afterGrowth, locals[k].cashOut)

(* the shield rate of a period: the configured inflation rate, per period *)
ShieldRate ==
    Div(Div(inflationRate, Num(100)), Num(PerYear(projectionFrequency)))

(* the start value of period k >= 2 under shield-value, from the inputs *)
ShieldStart(k) ==
    Mul(Mul(investmentAmount, Add(One, getConfig.rate)),
        Pow(Mul(Add(One, ShieldRate), Add(One, getConfig.rate)), k - 2))

(* C15: under shield-value the rows are determined by investmentAmount,   *)
(* the rate and inflationRate alone, whatever enableInflation is: in      *)
(* every period >= 2, newCash = startValue * (inflationRate / 100 /       *)
(* periods per year of the projection frequency).                         *)
C15_ShieldIgnoresToggle ==
    reinvestmentStrategy = "shield-value" =>
        \A k \in LaterRows :
            /\ locals[k].startValue = ShieldStart(k)
            /\ locals[k].newCash = Mul(ShieldStart(k), ShieldRate)
            /\ locals[k].endValue = ShieldStart(k + 1)
            /\ projections[k] = ProjectionData(locals[k])

C15_Witness ==
    /\ reinvestmentStrategy = "shield-value"
    /\ ~enableInflation
    /\ Len(projections) >= 3
    /\ NonZero(projections[3].newCash)

(* C17: under double-down, the newCash of every period >= 2 is the        *)
(* unrounded profit of the period before it (in period 2 the starting     *)
(* balance times the rate), and the carried previousProfit is the profit  *)
(* of the last period computed.                                           *)
C17_DoubleDown ==
    /\ reinvestmentStrategy = "double-down" =>
           /\ \A k \in LaterRows : locals[k].newCash = locals[k - 1].profit
           /\ Len(locals) >= 2 =>
                  locals[2].newCash = Mul(investmentAmount, getConfig.rate)
    /\ Len(locals) >= 1 => previousProfit = locals[Len(locals)].profit

C17_Witness ==
    /\ reinvestmentStrategy = "double-down"
    /\ Len(locals) >= 3
    /\ IsFraction(locals[2].profit)
    /\ locals[3].newCash = locals[2].profit
    /\ locals[3].newCash # locals[2].newCash

(* the ordinary annuity: the balance grows, then the contribution is added *)
RECURSIVE OrdinaryAnnuity(_, _, _, _)
OrdinaryAnnuity(b, C, rate, n) ==
    IF n <= 0 THEN b
    ELSE OrdinaryAnnuity(Add(Mul(b, Add(One, rate)), C), C, rate, n - 1)

(* C13: for periods >= 1 and startBalance > 0 the solver's output C       *)
(* satisfies the ordinary annuity: balance := balance * (1 + r) + C,      *)
(* applied `periods` times from startBalance, yields targetAmount         *)
(* exactly; at rate 0, C = (targetAmount - startBalance) / periods.       *)
C13_OrdinaryAnnuity ==
    (rt.periods >= 1 /\ Lt(Zero, rt.startBalance)) =>
        /\ OrdinaryAnnuity(rt.startBalance, rt.C,
                           SolverRate(rt.annualRate, rt.freq), rt.periods)
               = rt.targetAmount
        /\ rt.annualRate = Zero =>
               rt.C = Div(Sub(rt.targetAmount, rt.startBalance),
                          Num(rt.periods))

C13_Witness ==
    /\ rt.periods = MaxPeriods
    /\ rt.k = rt.periods
    /\ Lt(Zero, rt.startBalance)
    /\ Lt(Zero, rt.annualRate)
    /\ Lt(Zero, rt.C)
    /\ rt.balance # rt.targetAmount

(* C14: the solver returns 0 whenever periods <= 0 or startBalance <= 0,  *)
(* whatever the target, the rate and the frequency are.                   *)
C14_SolverRejects ==
    (rt.periods <= 0 \/ Le(rt.startBalance, Zero)) => rt.C = Zero

C14_Witness ==
    /\ rt.periods >= 1
    /\ Lt(rt.startBalance, Zero)
    /\ Lt(Zero, rt.annualRate)
    /\ NonZero(rt.targetAmount)
    /\ rt.C = Zero

Points == 1..Len(data)

(* the loop of calculations has run to its end *)
CalcDone == ~InLoop(calc.i, LastPeriod)

(* C12: for every GrowthPoint of a historical series, lump-sum or         *)
(* recurring, the recorded fields satisfy                                 *)
(* profit = currentValue - totalInvested exactly.                         *)
C12_RecordedProfit ==
    \A k \in Points :
        data[k].profit = Sub(data[k].currentValue, data[k].totalInvested)

(* C18 as stated: the finished series has                                 *)
(* floor((duration / 12) * periodsPerYear) + 1 points for a recurring     *)
(* frequency and duration + 1 points for 'once', periods 0, 1, 2, ... in  *)
(* order.                                                                 *)
C18_SeriesLength ==
    CalcDone =>
        /\ Num(Len(data)) =
               IF frequency = "once" THEN Add(duration, One)
               ELSE Num(Floor(Mul(Div(duration, Num(12)),
                                  Num(periodsPerYear(frequency)))) + 1)
        /\ \A k \in Points : data[k].period = k - 1

(* C18, amended: 'once' has floor(duration) + 1 points, which is          *)
(* duration + 1 for a whole number of months.                             *)
C18_SeriesLengthFloored ==
    /\ \A k \in Points : data[k].period = k - 1
    /\ CalcDone =>
           Len(data) =
               IF frequency = "once" THEN Floor(duration) + 1
               ELSE Floor(Mul(Div(duration, Num(12)),
                              Num(periodsPerYear(frequency)))) + 1

C18_Witness ==
    /\ CalcDone
    /\ frequency = "once"
    /\ IsFraction(duration)
    /\ Len(data) = 1

(* C19 as stated: in a recurring series the totalInvested of the point at *)
(* period i is contributionAmount * i.                                    *)
C19_TotalInvested ==
    frequency # "once" =>
        \A k \in Points :
            data[k].totalInvested = Mul(investmentAmount, Num(k - 1))

(* C19, amended: the recorded totalInvested is contributionAmount * i     *)
(* rounded to the nearest integer; the running total is exact.            *)
C19_TotalInvestedRounded ==
    frequency # "once" =>
        /\ \A k \in Points :
               data[k].totalInvested =
                   Round(Mul(investmentAmount, Num(k - 1)))
        /\ Len(data) >= 1 =>
               calc.totalInvested = Mul(investmentAmount, Num(Len(data) - 1))

C19_Witness ==
    /\ frequency # "once"
    /\ IsFraction(investmentAmount)
    /\ Len(data) >= 3
    /\ data[2].totalInvested = Num(3)
    /\ data[3].totalInvested = Num(5)

(* the label of the calendar month k months after the month of `date` *)
MonthAfter(date, k) ==
    <<MonthShort[((date.month + k) % 12) + 1],
      date.year + ((date.month + k) \div 12)>>

(* C20: for frequency 'once' and 'monthly', whatever the day of the start *)
(* date, the date of period i is in the calendar month i months after the *)
(* start date's month: no month is skipped or repeated.                   *)
C20_CalendarMonths ==
    frequency \in {"once", "monthly"} =>
        \A k \in Points : data[k].date = MonthAfter(start, k - 1)

(* the settings of the variants' parameters that agree with the           *)
(* component's on the parameter of the active strategy                    *)
OtherParams ==
    {p \in [levelUpAmount      : {levelUpAmount, Num(5)},
            salaryAmount       : {salaryAmount, Num(3)},
            customTargetAmount : {customTargetAmount, Num(40)},
            customGainPercent  : {customGainPercent, Num(35)}] :
        /\ reinvestmentStrategy = "level-up" =>
               p.levelUpAmount = levelUpAmount
        /\ reinvestmentStrategy = "take-salary" =>
               p.salaryAmount = salaryAmount
        /\ reinvestmentStrategy = "custom" =>
               p.customTargetAmount = customTargetAmount}

(* what the strategy switch contributed to a row *)
Outcome(q) ==
    [newCash |-> q.newCash, cashOut |-> q.cashOut, endValue |-> q.endValue]

(* C16: the parameters of the other variants do not reach the rows: every *)
(* row of a period >= 2 is what the switch yields from the row before it  *)
(* under any setting of levelUpAmount, salaryAmount, customTargetAmount   *)
(* and customGainPercent that keeps the active strategy's own parameter.  *)
C16_NoLeak ==
    \A k \in LaterRows : \A p \in OtherParams :
        ApplyStrategyWith(locals[k - 1].endValue, getConfig.rate,
                          getConfig.shieldInflation, locals[k - 1].profit, p)
            = Outcome(locals[k])

C16_Witness ==
    /\ reinvestmentStrategy = "take-salary"
    /\ salaryAmount = Num(3)
    /\ Len(locals) >= 3
    /\ locals[3].cashOut = Num(3)
    /\ \E p \in OtherParams : p.levelUpAmount # levelUpAmount

(* the simple-interest value of the principal after k months *)
LinearValue(k) ==
    Mul(investmentAmount,
        Add(One, Mul(Div(roiPercentage, Num(100)), Div(Num(k), Num(12)))))

(* C21: in 'once' mode with inflation disabled the unrounded value of the *)
(* point at elapsed month i is principal * (1 + annualRate * i / 12), the *)
(* recorded currentValue is its rounding, and                             *)
(* value(2i) - value(i) = value(i) - value(0) whenever the point of month *)
(* 2i exists.                                                             *)
C21_LinearGrowth ==
    (frequency = "once" /\ ~enableInflation) =>
        \A k \in Points :
            /\ periodValue(k - 1) = LinearValue(k - 1)
            /\ data[k].currentValue = Round(LinearValue(k - 1))
            /\ 2 * (k - 1) + 1 \in Points =>
                   Sub(periodValue(2 * (k - 1)), periodValue(k - 1))
                       = Sub(periodValue(k - 1), periodValue(0))

C21_Witness ==
    /\ frequency = "once"
    /\ ~enableInflation
    /\ CalcDone
    /\ Len(data) >= 3
    /\ NonZero(roiPercentage)
    /\ NonZero(investmentAmount)
    /\ Lt(data[2].currentValue, data[3].currentValue)

(* last points of other historical series: whatever the duration, the     *)
(* contribution frequency, the start date and showTotal made of them      *)
OtherFinalData ==
    {finalData} \cup
    {[period        |-> n,
      totalInvested |-> Num(a),
      currentValue  |-> Num(v),
      profit        |-> Num(v - a),
      displayValue  |-> IF total THEN Num(v) ELSE Num(v - a)] :
        n \in {0, 12}, a \in {0, MaxAmount}, v \in {0, 7, 25},
        total \in BOOLEAN}

(* C22: under every strategy but 'custom' the projection does not depend  *)
(* on the historical series: the series is never empty, period 1 injects  *)
(* investmentAmount, and every row of a period >= 2 is what the switch    *)
(* yields from the row before it whatever the last point of the series.   *)
C22_HistoryFree ==
    reinvestmentStrategy # "custom" =>
        /\ Len(calculations) > 0
        /\ Len(locals) >= 1 =>
               /\ locals[1].newCash = investmentAmount
               /\ locals[1].totalInvested = investmentAmount
               /\ locals[1].profit = Mul(investmentAmount, getConfig.rate)
               /\ locals[1].endValue =
                      Mul(investmentAmount, Add(One, getConfig.rate))
        /\ \A k \in LaterRows : \A final \in OtherFinalData :
               ApplyStrategyOn(final, locals[k - 1].endValue, getConfig.rate,
                               getConfig.shieldInflation, locals[k - 1].profit,
                               StrategyParams)
                   = Outcome(locals[k])

C22_Witness ==
    /\ reinvestmentStrategy = "repeat"
    /\ frequency = "weekly"
    /\ Len(locals) >= 3
    /\ NonZero(investmentAmount)
    /\ finalData.currentValue # investmentAmount
    /\ locals[3].newCash = investmentAmount

Degenerate ==
    \/ reinvestmentStrategy = "level-up" /\ levelUpAmount = Zero
    \/ reinvestmentStrategy = "shield-value" /\ inflationRate = Zero
    \/ reinvestmentStrategy = "take-salary" /\ salaryAmount = Zero
    \/ reinvestmentStrategy = "custom" /\ customPerPeriodAmount = Zero

(* the balance the all-in projection starts period k from *)
AllInStart(k) ==
    IF k = 1 THEN Zero
    ELSE Mul(investmentAmount, Pow(Add(One, getConfig.rate), k - 1))

(* the row of period k of the all-in projection, from the inputs *)
AllInProjection(k) ==
    ProjectionData(
        [period        |-> k,
         startValue    |-> AllInStart(k),
         newCash       |-> IF k = 1 THEN investmentAmount ELSE Zero,
         totalInvested |-> IF k = 1 THEN investmentAmount ELSE AllInStart(k),
         profit        |-> Sub(AllInStart(k + 1),
                               IF k = 1 THEN investmentAmount
                               ELSE AllInStart(k)),
         afterGrowth   |-> AllInStart(k + 1),
         cashOut       |-> Zero,
         endValue      |-> AllInStart(k + 1)])

(* C24: for investmentAmount >= 0 and rate >= 0, the rows of 'level-up'   *)
(* with levelUpAmount = 0, of 'shield-value' with inflationRate = 0, of   *)
(* 'take-salary' with salaryAmount = 0 and of 'custom' with a solver      *)
(* result of 0 are, row for row, the rows of 'all-in' on the same inputs. *)
C24_DegenerateIsAllIn ==
    (/\ Le(Zero, investmentAmount)
     /\ Le(Zero, getConfig.rate)
     /\ (Degenerate \/ reinvestmentStrategy = "all-in")) =>
        \A k \in Rows : projections[k] = AllInProjection(k)

C24_Witness ==
    /\ reinvestmentStrategy = "custom"
    /\ customPerPeriodAmount = Zero
    /\ NonZero(customTargetAmount)
    /\ Lt(Zero, investmentAmount)
    /\ Lt(Zero, getConfig.rate)
    /\ Len(projections) >= 3
    /\ Lt(projections[2].endValue, projections[3].endValue)
    /\ projections[3] = AllInProjection(3)

====
